---- MODULE Spec2Model ----
(***************************************************************************)
(* The three ParticleBackground effects of SahanMJ25/univerz:              *)
(*   "network"   src/src/components/ParticleBackground.tsx (attraction)    *)
(*   "repulsion" src/unnamed/part_000, lines 1-210                         *)
(*   "grid"      src/unnamed/part_000, lines 212-440                       *)
(* Each is one React effect: mount binds listeners, seeds, runs a frame    *)
(* and requests the next one; the cleanup closure cancels and unbinds.     *)
(*                                                                         *)
(* Numbers.  JavaScript numbers are modelled in fixed point: a length is   *)
(* an integer count of 1/Scale pixels, a factor such as 0.07 is its        *)
(* numerator over a stated denominator, and every product is divided with  *)
(* truncation toward zero.  NaN is the reserved value NaN, produced by     *)
(* 0/0 and propagated by the arithmetic that reads it.  Math.random() is   *)
(* a stream chosen among Patterns at each seeding.                         *)
(***************************************************************************)
EXTENDS Integers, Sequences, FiniteSets, TLC

VARIABLES
  variant,      \* which of the three effects this behaviour runs
  canvas,       \* what canvasRef.current / getContext give at mount
  phase,        \* "unmounted" | "mounted" | "torn"
  cleanup,      \* whether the effect returned its teardown closure
  W, H,         \* viewport dimensions, px
  nodes,        \* network: Node[]
  particles,    \* repulsion: Particle[]
  mouse,        \* network [x,y,active]; repulsion [x,y]; grid: smoothed [x,y]
  rawMouse,     \* grid: raw pointer position
  mouseActive,  \* grid: pointer activity flag
  targets,      \* the targets the last frame computed for the collection
                \* (none once a resize has replaced the collection)
  raf,          \* the effect's raf / animationId (0: still undefined)
  pending,      \* handles of frame requests the scheduler still holds
  handle,       \* the scheduler's last issued handle
  listeners,    \* registered subscriptions, <<target, type>>
  frames,       \* number of animate() executions so far
  trace,        \* the passes of the last animate() execution, in order
  signal        \* the last pointer signal that took effect: none yet, a
                \* move to a point (px), or a leave / touch end

vars == <<variant, canvas, phase, cleanup, W, H, nodes, particles, mouse,
          rawMouse, mouseActive, targets, raf, pending, handle, listeners,
          frames, trace, signal>>

----------------------------------------------------------------------------
(* Bounds of the model *)

\* frames executed in one behaviour of Spec
MaxFrames == 3
\* frames executed in one behaviour of SpecLong
LongFrames == 152

\* frames executed in one behaviour of SpecHeld
HeldFrames == 60

\* sub-pixel resolution: lengths are counted in 1/Scale px
Scale == 10 * 10
\* Math.random() yields r / RandDen, r in 0 .. RandDen-1
RandDen == 10 * 10
\* the encoding of NaN (no length of the model comes near it)
NaN == -(2 ^ 30)

\* window.innerWidth x window.innerHeight the host may report
Viewports == { <<100, 60>>, <<640, 900>> }
\* clientX, clientY of pointer signals
Pointers == { <<50, 30>>, <<20, 45>> }
\* e.touches of a touchmove: no touch, two touches
TouchLists == { <<>>, << <<20, 45>>, <<50, 30>> >> }

\* Math.random() streams: the k-th call (k = 0, 1, ...) of a seeding returns
\* Patterns[p][(k % Len) + 1] / RandDen
Patterns ==
  << <<50, 50, 50, 50, 0, 0, 0, 0, 99, 99, 99>>,
     <<25, 75, 40, 60, 10, 90, 50, 30, 70, 0, 99>> >>

random(p, k) == Patterns[p][(k % Len(Patterns[p])) + 1]

----------------------------------------------------------------------------
(* Arithmetic *)

Abs(a) == IF a < 0 THEN -a ELSE a

\* a / b of two numbers, rounded toward zero; 0/0 is NaN
Quot(a, b) ==
  IF a = NaN \/ b = NaN THEN NaN
  ELSE IF b = 0 THEN NaN
  ELSE IF (a >= 0) = (b > 0) THEN Abs(a) \div Abs(b)
  ELSE -(Abs(a) \div Abs(b))

RECURSIVE SqrtBetween(_, _, _)
SqrtBetween(n, lo, hi) ==
  IF lo >= hi THEN lo
  ELSE LET mid == (lo + hi + 1) \div 2
       IN  IF mid * mid <= n THEN SqrtBetween(n, mid, hi)
           ELSE SqrtBetween(n, lo, mid - 1)

\* Math.sqrt on a sum of squares below 2^31, rounded down
Sqrt(n) == SqrtBetween(n, 0, 46340)

\* beyond this per-axis separation a distance is reported as the larger
\* axis separation (a lower bound above every radius of the program), which
\* keeps the squares inside the integers of the checker
Far == 300 * Scale

----------------------------------------------------------------------------
(* Network variant: src/src/components/ParticleBackground.tsx *)

\* 0.00008, in 1/100000
NODE_DENSITY == 8
\* px
CONNECT_DIST == 180
\* px
MOUSE_CONNECT_DIST == 250
\* 0.012, in 1/1000
MOUSE_ATTRACT == 12
\* px
MOUSE_RADIUS == 280
\* 0.15 px per frame, in 1/100 px
DRIFT_SPEED == 15
\* 0.03, in 1/100
LERP_RETURN == 3
\* 1.0 px, in 1/10 px
NODE_MIN_R == 10
\* 2.2 px, in 1/10 px
NODE_MAX_R == 22

\* a lerp that does not move
lerpStill(a, b, t) == IF a = NaN \/ b = NaN THEN NaN ELSE a

\* lerp with the sign of the step slipped
lerpAway(a, b, t) ==
  IF a = NaN \/ b = NaN THEN NaN ELSE a - Quot((b - a) * t, 100)

\* lerp(a, b, t) = a + (b - a) * t, t given in 1/100
lerp(a, b, t) ==
  IF a = NaN \/ b = NaN THEN NaN ELSE a + Quot((b - a) * t, 100)

\* dist(ax, ay, bx, by) = Math.sqrt(dx*dx + dy*dy)
dist(ax, ay, bx, by) ==
  LET dx == ax - bx
      dy == ay - by
  IN  IF Abs(dx) >= Far \/ Abs(dy) >= Far
      THEN IF Abs(dx) >= Abs(dy) THEN Abs(dx) ELSE Abs(dy)
      ELSE Sqrt(dx * dx + dy * dy)

\* the count for a density of 0.000075
countSparse(w, h) ==
  LET n == (w * h * 75) \div 1000000
  IN  IF n > 40 THEN n ELSE 40

\* the count without its floor of 40
countNoFloor(w, h) == (w * h * NODE_DENSITY) \div 100000

\* Math.max(40, Math.floor(area * NODE_DENSITY))
count(w, h) ==
  LET area == w * h
      n    == (area * NODE_DENSITY) \div 100000
  IN  IF n > 40 THEN n ELSE 40

\* the i-th node (i = 0, 1, ...) pushed by seed(), drawing six numbers of
\* stream p in the order the object literal evaluates them
seedNode(w, h, p, i) ==
  LET x == Quot(random(p, 6 * i) * w * Scale, RandDen)
      y == Quot(random(p, 6 * i + 1) * h * Scale, RandDen)
  IN  [ x |-> x, y |-> y, ox |-> x, oy |-> y,
        vx |-> Quot((2 * random(p, 6 * i + 2) - RandDen) * DRIFT_SPEED * Scale,
                    RandDen * 100),
        vy |-> Quot((2 * random(p, 6 * i + 3) - RandDen) * DRIFT_SPEED * Scale,
                    RandDen * 100),
        r  |-> Quot(NODE_MIN_R * Scale, 10)
               + Quot(random(p, 6 * i + 4) * (NODE_MAX_R - NODE_MIN_R) * Scale,
                      RandDen * 10),
        phase |-> Quot(random(p, 6 * i + 5) * 6283, RandDen) ]

\* seed(): nodes = [] and count pushes
seed(w, h, p) == [ i \in 1 .. count(w, h) |-> seedNode(w, h, p, i - 1) ]

\* wrap with the high-side test left out
wrapLowOnly(o, dim) ==
  IF o < -(20 * Scale) THEN dim * Scale + 20 * Scale ELSE o

\* the wrap of one origin coordinate: the two tests of lines 99-100 in order
wrap(o, dim) ==
  LET a == IF o < -(20 * Scale) THEN dim * Scale + 20 * Scale ELSE o
  IN  IF a > dim * Scale + 20 * Scale THEN -(20 * Scale) ELSE a

\* a strength that grows with the distance
attractionGrowing(d) == (MOUSE_RADIUS * Scale + d) * MOUSE_ATTRACT * 12

\* strength * 12 of line 111-113 as a numerator over MOUSE_RADIUS*Scale*1000
attraction(d) == (MOUSE_RADIUS * Scale - d) * MOUSE_ATTRACT * 12

\* a pull ten times as strong
pullTenfold(o, m, d) ==
  o + Quot((m - o) * Quot(attraction(d) * 100, MOUSE_RADIUS * Scale), 10000)

\* o + (m - o) * strength * 12
pull(o, m, d) ==
  o + Quot((m - o) * Quot(attraction(d) * 100, MOUSE_RADIUS * Scale), 100000)

\* the target computed without reading mouse.active
targetIgnoringActive(ox, oy, m) ==
  LET d == dist(ox, oy, m.x, m.y)
  IN  IF d < MOUSE_RADIUS * Scale /\ d > 0
      THEN <<pull(ox, m.x, d), pull(oy, m.y, d)>>
      ELSE <<ox, oy>>

\* the target (tx, ty) of a node whose origin is (ox, oy): lines 105-115
target(ox, oy, m) ==
  IF m.active
  THEN LET d == dist(ox, oy, m.x, m.y)
       IN  IF d < MOUSE_RADIUS * Scale /\ d > 0
           THEN <<pull(ox, m.x, d), pull(oy, m.y, d)>>
           ELSE <<ox, oy>>
  ELSE <<ox, oy>>

\* an iteration that also damps the drift velocity
moveNodeFriction(n, m, w, h) ==
  LET ox == wrap(n.ox + n.vx, w)
      oy == wrap(n.oy + n.vy, h)
      tg == target(ox, oy, m)
  IN  [ n EXCEPT !.ox = ox, !.oy = oy,
                 !.vx = Quot(n.vx * 99, 100), !.vy = Quot(n.vy * 99, 100),
                 !.x = lerp(n.x, tg[1], LERP_RETURN + 4),
                 !.y = lerp(n.y, tg[2], LERP_RETURN + 4) ]

\* one iteration of the update loop of animate(): lines 93-120
moveNode(n, m, w, h) ==
  LET ox == wrap(n.ox + n.vx, w)
      oy == wrap(n.oy + n.vy, h)
      tg == target(ox, oy, m)
  IN  [ n EXCEPT !.ox = ox, !.oy = oy,
                 !.x = lerp(n.x, tg[1], LERP_RETURN + 4),
                 !.y = lerp(n.y, tg[2], LERP_RETURN + 4) ]

\* the target the iteration of moveNode computed
nodeTarget(n, m, w, h) == target(wrap(n.ox + n.vx, w), wrap(n.oy + n.vy, h), m)

\* the update loop of animate() over the whole collection
animate(ns, m, w, h) ==
  [ nodes   |-> [ i \in DOMAIN ns |-> moveNode(ns[i], m, w, h) ],
    targets |-> [ i \in DOMAIN ns |-> nodeTarget(ns[i], m, w, h) ] ]

\* an edge loop whose inner index starts at 0 instead of i + 1
pairsOrdered(n) == { q \in (1 .. n) \X (1 .. n) : q[2] # q[1] }

\* the index pairs (i, j) the edge loops visit: i = 0 .. n-1, j = i+1 .. n-1
pairs(n) == { q \in (1 .. n) \X (1 .. n) : q[2] > q[1] }

\* (1 - d / CONNECT_DIST) * 0.35, as a numerator over CONNECT_DIST*Scale*100
edgeOpacity(d) == (CONNECT_DIST * Scale - d) * 35

\* the node-to-node strokes of the edge pass: one per visited pair with
\* d < CONNECT_DIST, between the positions the update loop has just written
pairEdges(ns) ==
  LET d == [ q \in pairs(Len(ns)) |->
               dist(ns[q[1]].x, ns[q[1]].y, ns[q[2]].x, ns[q[2]].y) ]
  IN  { [ a |-> q[1], b |-> q[2], opacity |-> edgeOpacity(d[q]) ] :
          q \in { r \in DOMAIN d : d[r] < CONNECT_DIST * Scale } }

\* (1 - dm / MOUSE_CONNECT_DIST) * 0.55, over MOUSE_CONNECT_DIST*Scale*100
cursorOpacity(dm) == (MOUSE_CONNECT_DIST * Scale - dm) * 55

\* the cursor-to-node strokes of the edge pass
cursorEdges(ns, m) ==
  IF m.active
  THEN LET dm == [ i \in DOMAIN ns |-> dist(ns[i].x, ns[i].y, m.x, m.y) ]
       IN  { [ a |-> i, opacity |-> cursorOpacity(dm[i]) ] :
               i \in { k \in DOMAIN ns : dm[k] < MOUSE_CONNECT_DIST * Scale } }
  ELSE { }

\* an animate() that draws the nodes before the edges
passesNodesFirst(m) ==
  <<"clearRect", "update", "nodes", "edges">>
    \o (IF m.active THEN <<"hub">> ELSE << >>)
    \o <<"requestAnimationFrame">>

\* the passes of animate() in the order of its statements: clearRect, the
\* update loop, the edge loops, the node loop, the cursor hub when the pointer
\* is active, and the request for the next frame
passes(m) ==
  <<"clearRect", "update", "edges", "nodes">>
    \o (IF m.active THEN <<"hub">> ELSE << >>)
    \o <<"requestAnimationFrame">>

\* let mouse = { x: -9999, y: -9999, active: false }
mouseInit == [ x |-> -9999 * Scale, y |-> -9999 * Scale, active |-> FALSE ]

onMouseMove(m, e) == [ x |-> e[1] * Scale, y |-> e[2] * Scale, active |-> TRUE ]

onMouseLeave(m) == [ m EXCEPT !.active = FALSE ]

\* a touch handler that takes the last touch point
onTouchMoveLast(m, touches) ==
  IF Len(touches) # 0
  THEN [ x |-> touches[Len(touches)][1] * Scale,
         y |-> touches[Len(touches)][2] * Scale, active |-> TRUE ]
  ELSE m

onTouchMove(m, touches) ==
  IF Len(touches) # 0
  THEN [ x |-> touches[1][1] * Scale, y |-> touches[1][2] * Scale,
         active |-> TRUE ]
  ELSE m

onTouchEnd(m) == [ m EXCEPT !.active = FALSE ]

\* the five addEventListener calls of the Bind block
bind ==
  { <<"window", "resize">>, <<"window", "mousemove">>,
    <<"document", "mouseleave">>, <<"window", "touchmove">>,
    <<"window", "touchend">> }

\* the five removeEventListener calls of the teardown closure
unbind(ls) ==
  ls \ { <<"window", "resize">>, <<"window", "mousemove">>,
         <<"document", "mouseleave">>, <<"window", "touchmove">>,
         <<"window", "touchend">> }

----------------------------------------------------------------------------
(* Repulsion variant: src/unnamed/part_000, lines 1-210 *)

COLORS == << "#0A192F", "#FDE047", "#A855F7", "#e17044" >>
\* particles per 1000 px of width
PARTICLE_COUNT_FACTOR == 80
\* px
Rep_MOUSE_RADIUS == 150
REPULSION_STRENGTH == 8
\* 0.04, in 1/100
LERP_SPEED == 4
\* 0.3 px per frame, in 1/100 px
Rep_DRIFT_SPEED == 30

Rep_lerp(start, end, t) ==
  IF start = NaN \/ end = NaN THEN NaN ELSE start + Quot((end - start) * t, 100)

\* Math.floor((width / 1000) * PARTICLE_COUNT_FACTOR)
Rep_count(w) == (w * PARTICLE_COUNT_FACTOR) \div 1000

\* the i-th particle (i = 0, 1, ...) pushed by initParticles(): seven draws
initParticle(w, h, p, i) ==
  LET x == Quot(random(p, 7 * i) * w * Scale, RandDen)
      y == Quot(random(p, 7 * i + 1) * h * Scale, RandDen)
  IN  [ x |-> x, y |-> y, baseX |-> x, baseY |-> y,
        vx |-> Quot((2 * random(p, 7 * i + 2) - RandDen) * Rep_DRIFT_SPEED * Scale,
                    RandDen * 100),
        vy |-> Quot((2 * random(p, 7 * i + 3) - RandDen) * Rep_DRIFT_SPEED * Scale,
                    RandDen * 100),
        radius |-> Quot(random(p, 7 * i + 4) * 25 * Scale, RandDen * 10) + Scale,
        color  |-> COLORS[((random(p, 7 * i + 5) * Len(COLORS)) \div RandDen) + 1],
        alpha  |-> Quot(random(p, 7 * i + 6) * 60, RandDen) + 20 ]

initParticles(w, h, p) ==
  [ i \in 1 .. Rep_count(w) |-> initParticle(w, h, p, i - 1) ]

\* the wrap of one base coordinate: the two tests of lines 102-103 in order
Rep_wrap(b, dim) ==
  LET a == IF b < -(10 * Scale) THEN dim * Scale + 10 * Scale ELSE b
  IN  IF a > dim * Scale + 10 * Scale THEN -(10 * Scale) ELSE a

\* Math.sqrt(dx * dx + dy * dy)
Rep_dist(dx, dy) ==
  IF Abs(dx) >= Far \/ Abs(dy) >= Far
  THEN IF Abs(dx) >= Abs(dy) THEN Abs(dx) ELSE Abs(dy)
  ELSE Sqrt(dx * dx + dy * dy)

\* force of line 130 as a numerator over Rep_MOUSE_RADIUS*Scale
force(d) == (Rep_MOUSE_RADIUS * Scale - d) * REPULSION_STRENGTH

\* (dx / dist) * force * MOUSE_RADIUS * 0.1
push(dx, d) == Quot(dx * force(d), d * 10)

\* the test of line 120 without its dist > 0
pushedAtZero(d) == d < Rep_MOUSE_RADIUS * Scale

\* whether the particle at distance d is pushed: line 120
pushed(d) == d < Rep_MOUSE_RADIUS * Scale /\ d > 0

\* the target (targetX, targetY) of a particle at home (bx, by): lines 109-136
Rep_target(bx, by, m) ==
  LET dx == bx - m.x
      dy == by - m.y
      d  == Rep_dist(dx, dy)
      px == push(dx, d)
      py == push(dy, d)
  IN  IF pushed(d)
      THEN << IF px = NaN THEN NaN ELSE bx + px,
              IF py = NaN THEN NaN ELSE by + py >>
      ELSE <<bx, by>>

\* one iteration of the loop of animate(): lines 96-142
moveParticle(q, m, w, h) ==
  LET bx == Rep_wrap(q.baseX + q.vx, w)
      by == Rep_wrap(q.baseY + q.vy, h)
      tg == Rep_target(bx, by, m)
  IN  [ q EXCEPT !.baseX = bx, !.baseY = by,
                 !.x = Rep_lerp(q.x, tg[1], LERP_SPEED),
                 !.y = Rep_lerp(q.y, tg[2], LERP_SPEED) ]

particleTarget(q, m, w, h) ==
  Rep_target(Rep_wrap(q.baseX + q.vx, w), Rep_wrap(q.baseY + q.vy, h), m)

Rep_animate(ps, m, w, h) ==
  [ particles |-> [ i \in DOMAIN ps |-> moveParticle(ps[i], m, w, h) ],
    targets   |-> [ i \in DOMAIN ps |-> particleTarget(ps[i], m, w, h) ] ]

\* the passes of animate(): clearRect, one loop that updates and draws each
\* particle, the request for the next frame
Rep_passes == <<"clearRect", "particles", "requestAnimationFrame">>

\* let mouse = { x: -9999, y: -9999 }
Rep_mouseInit == [ x |-> -9999 * Scale, y |-> -9999 * Scale ]

handleMouseMove(m, e) == [ x |-> e[1] * Scale, y |-> e[2] * Scale ]

handleMouseLeave(m) == [ x |-> -9999 * Scale, y |-> -9999 * Scale ]

handleTouchMove(m, touches) ==
  IF Len(touches) > 0
  THEN [ x |-> touches[1][1] * Scale, y |-> touches[1][2] * Scale ]
  ELSE m

handleTouchEnd(m) == [ x |-> -9999 * Scale, y |-> -9999 * Scale ]

\* the five addEventListener calls of Initialize (mouseleave on window)
Rep_bind ==
  { <<"window", "resize">>, <<"window", "mousemove">>,
    <<"window", "mouseleave">>, <<"window", "touchmove">>,
    <<"window", "touchend">> }

Rep_unbind(ls) ==
  ls \ { <<"window", "resize">>, <<"window", "mousemove">>,
         <<"window", "mouseleave">>, <<"window", "touchmove">>,
         <<"window", "touchend">> }

----------------------------------------------------------------------------
(* Grid variant: src/unnamed/part_000, lines 212-440 *)

\* px
CELL == 50
\* px
GLOW_RADIUS == 220
\* px
DOT_RADIUS == 2

Grid_lerp(a, b, t) ==
  IF a = NaN \/ b = NaN THEN NaN ELSE a + Quot((b - a) * t, 100)

\* let rawMouse = { x: -9999, y: -9999 }; let mouse = { x: -9999, y: -9999 }
Grid_mouseInit == [ x |-> -9999 * Scale, y |-> -9999 * Scale ]

\* one coordinate of the smoothed pointer after a frame: lines 259-266
smooth(s, raw, active) ==
  LET a == Grid_lerp(s, raw, 12)
  IN  IF ~active THEN Grid_lerp(a, -9999 * Scale, 5) ELSE a

Grid_animate(sm, raw, active) ==
  [ x |-> smooth(sm.x, raw.x, active), y |-> smooth(sm.y, raw.y, active) ]

\* Math.ceil(W / CELL) + 1 and Math.ceil(H / CELL) + 1
cols(w) == ((w + CELL - 1) \div CELL) + 1
rows(h) == ((h + CELL - 1) \div CELL) + 1

\* const segments = 40
segments == 8 * 5

\* Math.sqrt(dx * dx + dy * dy)
Grid_dist(dx, dy) ==
  IF Abs(dx) >= Far \/ Abs(dy) >= Far
  THEN IF Abs(dx) >= Abs(dy) THEN Abs(dx) ELSE Abs(dy)
  ELSE Sqrt(dx * dx + dy * dy)

\* a line test that lets through only lines within half the radius
nearLineHalf(a, m) == 2 * Abs(a - m) < GLOW_RADIUS * Scale

\* the test on a line's own coordinate a: dLine < GLOW_RADIUS
nearLine(a, m) == Abs(a - m) < GLOW_RADIUS * Scale

\* midpoint of segment s (0 .. segments-1) of a line of length len px:
\* (s * seg + (s + 1) * seg) / 2 with seg = len / segments
segMid(s, len) == Quot((2 * s + 1) * len * Scale, 2 * segments)

\* intensity * intensity * 0.5, as a numerator over 2 * (GLOW_RADIUS*Scale)^2
glowAlpha(d) == (GLOW_RADIUS * Scale - d) * (GLOW_RADIUS * Scale - d)

\* the strokes of the vertical-line pass around the smoothed pointer sm
verticalSegments(sm, w, h) ==
  LET lines == { c \in 0 .. cols(w) : nearLine(c * CELL * Scale, sm.x) }
      d == [ q \in lines \X (0 .. segments - 1) |->
               Grid_dist(q[1] * CELL * Scale - sm.x, segMid(q[2], h) - sm.y) ]
  IN  { [ line |-> q[1], seg |-> q[2], alpha |-> glowAlpha(d[q]) ] :
          q \in { r \in DOMAIN d : d[r] < GLOW_RADIUS * Scale } }

\* the strokes of the horizontal-line pass
horizontalSegments(sm, w, h) ==
  LET lines == { r \in 0 .. rows(h) : nearLine(r * CELL * Scale, sm.y) }
      d == [ q \in lines \X (0 .. segments - 1) |->
               Grid_dist(segMid(q[2], w) - sm.x, q[1] * CELL * Scale - sm.y) ]
  IN  { [ line |-> q[1], seg |-> q[2], alpha |-> glowAlpha(d[q]) ] :
          q \in { r \in DOMAIN d : d[r] < GLOW_RADIUS * Scale } }

\* intensity * intensity * 0.7, as a numerator over (GLOW_RADIUS*Scale)^2 * 10/7
dotAlpha(d) == (GLOW_RADIUS * Scale - d) * (GLOW_RADIUS * Scale - d)

\* the intersection dots painted around the smoothed pointer sm
dots(sm, w, h) ==
  LET d == [ q \in (0 .. cols(w)) \X (0 .. rows(h)) |->
               Grid_dist(q[1] * CELL * Scale - sm.x, q[2] * CELL * Scale - sm.y) ]
  IN  { [ col |-> q[1], row |-> q[2], alpha |-> dotAlpha(d[q]) ] :
          q \in { r \in DOMAIN d : d[r] < GLOW_RADIUS * Scale } }

\* the passes of animate() in the order of its statements; sm is the smoothed
\* pointer the frame has just computed
Grid_passes(sm, active) ==
  <<"clearRect", "smooth", "vertical", "horizontal", "dots">>
    \o (IF active \/ sm.x > -5000 * Scale THEN <<"hub">> ELSE << >>)
    \o <<"requestAnimationFrame">>

Grid_onMouseMove(e) == [ x |-> e[1] * Scale, y |-> e[2] * Scale ]

Grid_onTouchMove(raw, active, touches) ==
  IF Len(touches) # 0
  THEN << [ x |-> touches[1][1] * Scale, y |-> touches[1][2] * Scale ], TRUE >>
  ELSE << raw, active >>

Grid_bind ==
  { <<"window", "resize">>, <<"window", "mousemove">>,
    <<"document", "mouseleave">>, <<"window", "touchmove">>,
    <<"window", "touchend">> }

Grid_unbind(ls) ==
  ls \ { <<"window", "resize">>, <<"window", "mousemove">>,
         <<"document", "mouseleave">>, <<"window", "touchmove">>,
         <<"window", "touchend">> }

----------------------------------------------------------------------------
(* The host: frame scheduler and effect lifecycle *)

Variants == { "network", "repulsion", "grid" }

\* a request that is issued twice
requestTwice(pend, hd) == pend \cup { hd + 1, hd + 2 }

\* requestAnimationFrame(animate): the scheduler issues the next handle
requestAnimationFrame(pend, hd) == pend \cup { hd + 1 }

\* cancelAnimationFrame(id): a handle that is not pending is ignored
cancelAnimationFrame(pend, id) == pend \ { id }

\* the guard without its test of the drawing context
surfaceCanvasOnly(c) == c # "null"

\* the two early returns of the effect: if (!canvas) return; if (!ctx) return
surface(c) == c = "ok"

\* a resize that keeps the nodes it has and seeds only the missing ones
resizeMigrate(ns, vp, p) ==
  [ W |-> vp[1], H |-> vp[2],
    nodes |-> [ i \in 1 .. count(vp[1], vp[2]) |->
                  IF i <= Len(ns) THEN ns[i]
                  ELSE seedNode(vp[1], vp[2], p, i - 1) ] ]

\* resize(): W, H and, in the particle variants, a fresh collection
resize(ns, vp, p) ==
  [ W |-> vp[1], H |-> vp[2], nodes |-> seed(vp[1], vp[2], p) ]

Rep_resize(ps, vp, p) ==
  [ W |-> vp[1], H |-> vp[2], particles |-> initParticles(vp[1], vp[2], p) ]

Grid_resize(vp) == [ W |-> vp[1], H |-> vp[2] ]

\* a teardown that cancels the request made at mount, not the last one
teardownStale(pend, id, ls) ==
  [ pending   |-> cancelAnimationFrame(pend, 1),
    listeners |-> CASE variant = "network"   -> unbind(ls)
                    [] variant = "repulsion" -> Rep_unbind(ls)
                    [] variant = "grid"      -> Grid_unbind(ls) ]

\* a teardown whose cancel flips the request instead of removing it
teardownFlip(pend, id, ls) ==
  [ pending   |-> IF id \in pend THEN pend \ { id } ELSE pend \cup { id },
    listeners |-> CASE variant = "network"   -> unbind(ls)
                    [] variant = "repulsion" -> Rep_unbind(ls)
                    [] variant = "grid"      -> Grid_unbind(ls) ]

\* the teardown closure: cancel the last request, remove the five listeners
teardown(pend, id, ls) ==
  [ pending   |-> cancelAnimationFrame(pend, id),
    listeners |-> CASE variant = "network"   -> unbind(ls)
                    [] variant = "repulsion" -> Rep_unbind(ls)
                    [] variant = "grid"      -> Grid_unbind(ls) ]

\* the values of signal
NoSignal == [ type |-> "none", at |-> <<-9999, -9999>> ]
Moved(e) == [ type |-> "move", at |-> e ]
Left == [ type |-> "off", at |-> <<-9999, -9999>> ]

Listening(type) == \E l \in listeners : l[2] = type

Init ==
  /\ variant \in Variants
  /\ canvas \in { "ok", "null", "noctx" }
  /\ phase = "unmounted"
  /\ cleanup = FALSE
  /\ W = 0
  /\ H = 0
  /\ nodes = << >>
  /\ particles = << >>
  /\ mouse = CASE variant = "network"   -> mouseInit
               [] variant = "repulsion" -> Rep_mouseInit
               [] variant = "grid"      -> Grid_mouseInit
  /\ rawMouse = Grid_mouseInit
  /\ mouseActive = FALSE
  /\ targets = << >>
  /\ raf = 0
  /\ pending = { }
  /\ handle = 0
  /\ listeners = { }
  /\ frames = 0
  /\ trace = << >>
  /\ signal = NoSignal

\* what one execution of animate() does to the field state
Animated(ns, ps, sm, w, h) ==
  CASE variant = "network" ->
         LET a == animate(ns, mouse, w, h)
         IN  /\ nodes' = a.nodes
             /\ targets' = a.targets
             /\ particles' = ps
             /\ mouse' = sm
             /\ trace' = passes(mouse)
    [] variant = "repulsion" ->
         LET a == Rep_animate(ps, mouse, w, h)
         IN  /\ particles' = a.particles
             /\ targets' = a.targets
             /\ nodes' = ns
             /\ mouse' = sm
             /\ trace' = Rep_passes
    [] variant = "grid" ->
         /\ mouse' = Grid_animate(sm, rawMouse, mouseActive)
         /\ trace' = Grid_passes(Grid_animate(sm, rawMouse, mouseActive),
                                 mouseActive)
         /\ nodes' = ns
         /\ particles' = ps
         /\ targets' = targets

\* the frame request that ends animate()
Requested(pend) ==
  /\ pending' = requestAnimationFrame(pend, handle)
  /\ handle' = handle + 1
  /\ raf' = handle + 1
  /\ frames' = frames + 1

\* the effect body at mount: guard, bind, resize(), animate(), return teardown
MountOn(vps) ==
  /\ phase = "unmounted"
  /\ phase' = "mounted"
  /\ IF surface(canvas)
     THEN /\ cleanup' = TRUE
          /\ listeners' = CASE variant = "network"   -> bind
                            [] variant = "repulsion" -> Rep_bind
                            [] variant = "grid"      -> Grid_bind
          /\ \E vp \in vps, p \in DOMAIN Patterns :
               /\ W' = vp[1]
               /\ H' = vp[2]
               /\ CASE variant = "network" ->
                         Animated(resize(nodes, vp, p).nodes, particles,
                                  mouse, vp[1], vp[2])
                    [] variant = "repulsion" ->
                         Animated(nodes, Rep_resize(particles, vp, p).particles,
                                  mouse, vp[1], vp[2])
                    [] variant = "grid" ->
                         Animated(nodes, particles, mouse,
                                  Grid_resize(vp).W, Grid_resize(vp).H)
          /\ Requested(pending)
          /\ UNCHANGED <<variant, canvas, rawMouse, mouseActive, signal>>
     ELSE /\ cleanup' = FALSE
          /\ UNCHANGED <<variant, canvas, W, H, nodes, particles, mouse,
                         rawMouse, mouseActive, targets, raf, pending, handle,
                         listeners, frames, trace, signal>>

\* the scheduler runs a pending request: one execution of animate()
FrameUpTo(max) ==
  /\ frames < max
  /\ \E id \in pending :
       /\ Animated(nodes, particles, mouse, W, H)
       /\ Requested(pending \ { id })
  /\ UNCHANGED <<variant, canvas, phase, cleanup, W, H, rawMouse, mouseActive,
                 listeners, signal>>

\* a resize signal reaches the resize listener
ResizeTo(vps) ==
  /\ Listening("resize")
  /\ \E vp \in vps, p \in DOMAIN Patterns :
       CASE variant = "network" ->
              LET r == resize(nodes, vp, p)
              IN  /\ W' = r.W /\ H' = r.H /\ nodes' = r.nodes
                  /\ UNCHANGED particles
         [] variant = "repulsion" ->
              LET r == Rep_resize(particles, vp, p)
              IN  /\ W' = r.W /\ H' = r.H /\ particles' = r.particles
                  /\ UNCHANGED nodes
         [] variant = "grid" ->
              LET r == Grid_resize(vp)
              IN  /\ W' = r.W /\ H' = r.H
                  /\ UNCHANGED <<nodes, particles>>
  /\ targets' = << >>
  /\ UNCHANGED <<variant, canvas, phase, cleanup, mouse, rawMouse, mouseActive,
                 raf, pending, handle, listeners, frames, trace, signal>>

\* what every pointer handler leaves alone
PointerFrame ==
  UNCHANGED <<variant, canvas, phase, cleanup, W, H, nodes, particles, targets,
              raf, pending, handle, listeners, frames, trace>>

\* a mousemove signal at one of the points ps
MouseMoveTo(ps) ==
  /\ Listening("mousemove")
  /\ \E e \in ps :
       /\ signal' = Moved(e)
       /\ CASE variant = "network" ->
              mouse' = onMouseMove(mouse, e) /\ UNCHANGED <<rawMouse, mouseActive>>
         [] variant = "repulsion" ->
              mouse' = handleMouseMove(mouse, e) /\ UNCHANGED <<rawMouse, mouseActive>>
         [] variant = "grid" ->
              rawMouse' = Grid_onMouseMove(e) /\ mouseActive' = TRUE /\ UNCHANGED mouse
  /\ PointerFrame

MouseLeave ==
  /\ Listening("mouseleave")
  /\ signal' = Left
  /\ CASE variant = "network" ->
            mouse' = onMouseLeave(mouse) /\ UNCHANGED <<rawMouse, mouseActive>>
       [] variant = "repulsion" ->
            mouse' = handleMouseLeave(mouse) /\ UNCHANGED <<rawMouse, mouseActive>>
       [] variant = "grid" ->
            mouseActive' = FALSE /\ UNCHANGED <<mouse, rawMouse>>
  /\ PointerFrame

TouchMove ==
  /\ Listening("touchmove")
  /\ \E touches \in TouchLists :
       /\ signal' = IF Len(touches) = 0 THEN signal ELSE Moved(touches[1])
       /\ CASE variant = "network" ->
              mouse' = onTouchMove(mouse, touches) /\ UNCHANGED <<rawMouse, mouseActive>>
         [] variant = "repulsion" ->
              mouse' = handleTouchMove(mouse, touches) /\ UNCHANGED <<rawMouse, mouseActive>>
         [] variant = "grid" ->
              LET r == Grid_onTouchMove(rawMouse, mouseActive, touches)
              IN  rawMouse' = r[1] /\ mouseActive' = r[2] /\ UNCHANGED mouse
  /\ PointerFrame

TouchEnd ==
  /\ Listening("touchend")
  /\ signal' = Left
  /\ CASE variant = "network" ->
            mouse' = onTouchEnd(mouse) /\ UNCHANGED <<rawMouse, mouseActive>>
       [] variant = "repulsion" ->
            mouse' = handleTouchEnd(mouse) /\ UNCHANGED <<rawMouse, mouseActive>>
       [] variant = "grid" ->
            mouseActive' = FALSE /\ UNCHANGED <<mouse, rawMouse>>
  /\ PointerFrame

\* React unmounts the component: the cleanup the effect returned, if any, runs
Unmount ==
  /\ phase = "mounted"
  /\ phase' = "torn"
  /\ IF cleanup
     THEN LET t == teardown(pending, raf, listeners)
          IN  pending' = t.pending /\ listeners' = t.listeners
     ELSE UNCHANGED <<pending, listeners>>
  /\ UNCHANGED <<variant, canvas, cleanup, W, H, nodes, particles, mouse,
                 rawMouse, mouseActive, targets, raf, handle, frames, trace,
                 signal>>

Mount == MountOn(Viewports)
MouseMove == MouseMoveTo(Pointers)
Frame == FrameUpTo(MaxFrames)
Resize == ResizeTo(Viewports)

Next ==
  \/ Mount
  \/ Frame
  \/ Resize
  \/ MouseMove
  \/ MouseLeave
  \/ TouchMove
  \/ TouchEnd
  \/ Unmount

Spec == Init /\ [][Next]_vars

\* A long run, long enough for origins to drift past the wrap margin: the
\* host resizes early or late in the run and the pointer acts late in it.
LongViewports == { <<100, 60>> }
Early == frames <= MaxFrames
Late == frames + MaxFrames >= LongFrames

LongMount == MountOn(LongViewports)
LongFrame == FrameUpTo(LongFrames)
LongResize == (Early \/ Late) /\ ResizeTo(LongViewports)
LongMouseMove == Late /\ MouseMove
LongMouseLeave == Late /\ MouseLeave
LongTouchMove == Late /\ TouchMove
LongTouchEnd == Late /\ TouchEnd

LongNext ==
  \/ LongMount
  \/ LongFrame
  \/ LongResize
  \/ LongMouseMove
  \/ LongMouseLeave
  \/ LongTouchMove
  \/ LongTouchEnd
  \/ Unmount

SpecLong == Init /\ [][LongNext]_vars

\* The effect on a 1920 x 1080 host.
HDViewports == { <<1920, 1080>> }
HDMount == MountOn(HDViewports)
HDResize == ResizeTo(HDViewports)

HDNext ==
  \/ HDMount
  \/ Frame
  \/ HDResize
  \/ MouseMove
  \/ MouseLeave
  \/ TouchMove
  \/ TouchEnd
  \/ Unmount

SpecHD == Init /\ [][HDNext]_vars

\* A pointer that signals promptly after mount and is then left alone for
\* the rest of the run, on a host that keeps its size.
HeldViewports == { <<100, 60>> }
Prompt == frames <= 2

HeldMount == MountOn(HeldViewports)
HeldFrame == FrameUpTo(HeldFrames)
HeldMouseMove == Prompt /\ MouseMove
HeldMouseLeave == Prompt /\ MouseLeave
HeldUnmount == frames >= HeldFrames /\ Unmount

HeldNext ==
  \/ HeldMount
  \/ HeldFrame
  \/ HeldMouseMove
  \/ HeldMouseLeave
  \/ HeldUnmount

SpecHeld == Init /\ [][HeldNext]_vars

\* The grid effect on a 7680 x 4320 host, with a pointer that signals
\* promptly after mount and is then left alone.
BigViewports == { <<7680, 4320>> }
BigPointers == { <<7600, 4300>>, <<3840, 4300>> }

BigMount == variant = "grid" /\ MountOn(BigViewports)
BigFrame == FrameUpTo(HeldFrames)
BigMouseMove == Prompt /\ MouseMoveTo(BigPointers)
BigMouseLeave == Prompt /\ MouseLeave
BigUnmount == frames >= HeldFrames /\ Unmount

BigNext ==
  \/ BigMount
  \/ BigFrame
  \/ BigMouseMove
  \/ BigMouseLeave
  \/ BigUnmount

SpecBig == Init /\ [][BigNext]_vars

----------------------------------------------------------------------------
(* Properties *)

\* the field state a frame, a pointer signal or a resize signal can mutate
Field == <<W, H, nodes, particles, mouse, rawMouse, mouseActive, targets>>

\* a step that executes animate() from a pending request
FrameStep == phase # "unmounted" /\ frames' = frames + 1

\* a step that executes resize() from a resize signal
ResizeStep ==
  /\ phase # "unmounted"
  /\ frames' = frames
  /\ <<W, H, nodes, particles>>' # <<W, H, nodes, particles>>

\* C1: once the teardown closure has run, no frame callback executes, no
\* frame request is pending, every subscription of mount is removed, and no
\* step mutates the field state.
C1_TeardownStopsEverything ==
  [][ /\ phase' = "torn" => pending' = { } /\ listeners' = { }
      /\ phase = "torn" => frames' = frames /\ Field' = Field ]_vars

\* C1 witness: torn down after several frames, with the last request cancelled
C1_Witness ==
  /\ phase = "torn"
  /\ cleanup
  /\ frames >= 2
  /\ raf = handle
  /\ pending = { }
  /\ listeners = { }

\* home coordinates of the collection, as <<x, y>> pairs
Homes ==
  CASE variant = "network" ->
         [ i \in DOMAIN nodes |-> <<nodes[i].ox, nodes[i].oy>> ]
    [] variant = "repulsion" ->
         [ i \in DOMAIN particles |-> <<particles[i].baseX, particles[i].baseY>> ]
    [] variant = "grid" -> << >>

\* render coordinates of the collection
Renders ==
  CASE variant = "network" ->
         [ i \in DOMAIN nodes |-> <<nodes[i].x, nodes[i].y>> ]
    [] variant = "repulsion" ->
         [ i \in DOMAIN particles |-> <<particles[i].x, particles[i].y>> ]
    [] variant = "grid" -> << >>

\* drift velocities of the collection
Drifts ==
  CASE variant = "network" ->
         [ i \in DOMAIN nodes |-> <<nodes[i].vx, nodes[i].vy>> ]
    [] variant = "repulsion" ->
         [ i \in DOMAIN particles |-> <<particles[i].vx, particles[i].vy>> ]
    [] variant = "grid" -> << >>

\* the wrap margin of the claim: 20 px (network), 10 px (repulsion)
Margin == IF variant = "network" THEN 20 * Scale ELSE 10 * Scale

\* the claimed result of a drift step on one axis whose dimension is dim
Wrapped(home, v, dim) ==
  IF home + v > dim * Scale + Margin THEN -Margin
  ELSE IF home + v < -Margin THEN dim * Scale + Margin
  ELSE home + v

\* C2: every home coordinate stays in [-margin, dimension + margin]; a frame
\* sets a coordinate that its drift step pushes above the high bound to
\* exactly -margin, one pushed below -margin to exactly dimension + margin,
\* and any other to the drifted value, each axis on its own.
C2_HomeStaysInBounds ==
  [][ /\ \A i \in DOMAIN Homes' :
           /\ Homes'[i][1] >= -Margin /\ Homes'[i][1] <= W' * Scale + Margin
           /\ Homes'[i][2] >= -Margin /\ Homes'[i][2] <= H' * Scale + Margin
      /\ FrameStep =>
           \A i \in DOMAIN Homes :
             /\ Homes'[i][1] = Wrapped(Homes[i][1], Drifts[i][1], W)
             /\ Homes'[i][2] = Wrapped(Homes[i][2], Drifts[i][2], H) ]_vars

\* C2 witness: an origin that moves right sits at exactly -margin (a wrap
\* from the high side), and one that moves left at exactly width + margin
C2_Witness ==
  /\ variant = "network"
  /\ phase = "mounted"
  /\ \E i \in DOMAIN nodes :
        nodes[i].ox = -(20 * Scale) /\ nodes[i].vx > 0
  /\ \E i \in DOMAIN nodes :
        nodes[i].ox <= W * Scale + 20 * Scale /\ nodes[i].ox > W * Scale
        /\ nodes[i].vx < 0

\* the collection of the variant, and the home and render point of a member
Collection == IF variant = "network" THEN nodes ELSE particles
HomeOf(q) == IF variant = "network" THEN <<q.ox, q.oy>> ELSE <<q.baseX, q.baseY>>
RenderOf(q) == <<q.x, q.y>>

\* what seeding for a w x h viewport yields with random stream p
Seeded(w, h, p) ==
  CASE variant = "network"   -> seed(w, h, p)
    [] variant = "repulsion" -> initParticles(w, h, p)
    [] variant = "grid"      -> << >>

\* what the frame that mount runs makes of a seeded collection c
FirstFrame(c, w, h) ==
  CASE variant = "network"   -> animate(c, mouse, w, h).nodes
    [] variant = "repulsion" -> Rep_animate(c, mouse, w, h).particles
    [] variant = "grid"      -> << >>

\* every member of c has renderPos = homePos inside [0, w] x [0, h]
StartsAtHome(c, w, h) ==
  \A i \in DOMAIN c :
    /\ RenderOf(c[i]) = HomeOf(c[i])
    /\ c[i].x >= 0 /\ c[i].x <= w * Scale
    /\ c[i].y >= 0 /\ c[i].y <= h * Scale

Max(a, b) == IF a > b THEN a ELSE b

\* C3: once mounted, and after every resize, the collection has exactly
\* max(40, floor(W*H*0.00008)) members (network) or floor(W/1000*80)
\* (repulsion); a resize leaves every member with renderPos = homePos inside
\* [0, W] x [0, H] of the new dimensions, and mount runs its first frame on a
\* collection seeded that way.
C3_SeededCountAndStart ==
  [][ /\ cleanup' /\ variant = "network" =>
           Len(nodes') = Max(40, (W' * H' * 8) \div 100000)
      /\ cleanup' /\ variant = "repulsion" =>
           Len(particles') = (W' * 80) \div 1000
      /\ ResizeStep => StartsAtHome(Collection', W', H')
      /\ phase = "unmounted" /\ cleanup' =>
           \E p \in DOMAIN Patterns :
             /\ StartsAtHome(Seeded(W', H', p), W', H')
             /\ Collection' = FirstFrame(Seeded(W', H', p), W', H') ]_vars

\* C3 witness: after frames, a resize to 640 x 900 has left 46 fresh nodes
C3_Witness ==
  /\ variant = "network"
  /\ phase = "mounted"
  /\ frames >= 2
  /\ W = 640 /\ H = 900
  /\ Len(nodes) = 46
  /\ targets = << >>
  /\ StartsAtHome(nodes, W, H)

\* C4, as claimed: a 1920 x 1080 viewport yields exactly 155 nodes
C4_Original ==
  variant = "network" /\ cleanup /\ W = 1920 /\ H = 1080 => Len(nodes) = 155

\* C4, amended: a 1920 x 1080 viewport yields exactly 165 nodes
\* (floor(2073600 * 0.00008)), and every seeding for it starts all 165 inside
\* the viewport.
C4_Count165 ==
  [][ variant = "network" /\ cleanup' /\ W' = 1920 /\ H' = 1080 =>
        /\ Len(nodes') = 165
        /\ (ResizeStep \/ phase = "unmounted") =>
             \E p \in DOMAIN Patterns :
               LET s == seed(1920, 1080, p)
               IN  /\ Len(s) = 165
                   /\ \A i \in DOMAIN s :
                        /\ s[i].x >= 0 /\ s[i].x <= 1920 * Scale
                        /\ s[i].y >= 0 /\ s[i].y <= 1080 * Scale
                   /\ nodes' \in { s, animate(s, mouse, 1920, 1080).nodes } ]_vars

\* C4 witness: the network effect mounted on a 1920 x 1080 viewport
C4_Witness ==
  /\ variant = "network"
  /\ phase = "mounted"
  /\ W = 1920 /\ H = 1080
  /\ Len(nodes) = 165

\* the pointer is inactive: flag down (network), sentinel position (repulsion)
PointerInactive ==
  CASE variant = "network"   -> ~mouse.active
    [] variant = "repulsion" -> mouse = Rep_mouseInit
    [] variant = "grid"      -> ~mouseActive

DistSq(a, b) == (a[1] - b[1]) * (a[1] - b[1]) + (a[2] - b[2]) * (a[2] - b[2])

\* c lies between a and b, ends included
Between(a, c, b) == (a <= c /\ c <= b) \/ (b <= c /\ c <= a)

\* C5, as claimed: over frames with the pointer inactive, the distance
\* between renderPos and homePos never grows
C5_Original ==
  [][ FrameStep /\ PointerInactive =>
        \A i \in DOMAIN Homes :
          DistSq(Renders'[i], Homes'[i]) <= DistSq(Renders[i], Homes[i]) ]_vars

\* C5, amended: in a frame with the pointer inactive, renderPos moves on each
\* axis from its old value toward that frame's homePos without passing it,
\* so it ends no farther from that homePos than it was.
C5_MovesTowardHome ==
  [][ FrameStep /\ PointerInactive =>
        \A i \in DOMAIN Homes :
          /\ Between(Renders[i][1], Renders'[i][1], Homes'[i][1])
          /\ Between(Renders[i][2], Renders'[i][2], Homes'[i][2])
          /\ DistSq(Renders'[i], Homes'[i]) <= DistSq(Renders[i], Homes'[i]) ]_vars

\* C5 witness: frames have run with the pointer never active, and a node
\* lags behind its origin
C5_Witness ==
  /\ variant = "network"
  /\ frames >= 2
  /\ mouse = mouseInit
  /\ \E i \in DOMAIN nodes :
        /\ nodes[i].x # nodes[i].ox
        /\ targets[i] = <<nodes[i].ox, nodes[i].oy>>

\* C6: a frame executed while the pointer is inactive (flag down in the
\* network variant, sentinel position in the repulsion variant) computes for
\* every particle a target equal to its homePos, whatever position the
\* pointer last had.
C6_InactiveTargetsAreHome ==
  [][ frames' = frames + 1 /\ PointerInactive => targets' = Homes' ]_vars

\* C6 witness: the pointer was active and is inactive again; a node without
\* horizontal drift is still displaced by the earlier pull, and the last
\* frame gave every node its origin as target
C6_Witness ==
  /\ variant = "network"
  /\ ~mouse.active
  /\ mouse.x # mouseInit.x
  /\ targets # << >>
  /\ targets = Homes
  /\ \E i \in DOMAIN nodes : nodes[i].vx = 0 /\ nodes[i].x # nodes[i].ox

\* the strength the variant applies at distance d, as a numerator
Strength(d) == IF variant = "network" THEN attraction(d) ELSE force(d)

\* the influence radius of the variant, in 1/Scale px
Radius ==
  IF variant = "network" THEN MOUSE_RADIUS * Scale ELSE Rep_MOUSE_RADIUS * Scale

\* distance from each home position to the point e (px)
HomeDistances(e) ==
  [ i \in DOMAIN Homes |->
      dist(Homes[i][1], Homes[i][2], e[1] * Scale, e[2] * Scale) ]

\* C7: the strength is a function of the distance alone; at distance 0 it is
\* its maximum, 0.144 (network) or a push of 120 px (repulsion); at the
\* radius it is exactly 0; and it decreases strictly in between, at every
\* whole pixel and at the distances of the particles to any pointer position.
C7_StrengthDecreasesWithDistance ==
  /\ attraction(0) = 144 * 280 * Scale
  /\ attraction(280 * Scale) = 0
  /\ \A k \in 0 .. 279 : attraction(k * Scale) > attraction((k + 1) * Scale)
  /\ force(0) = 120 * 10 * Scale
  /\ force(150 * Scale) = 0
  /\ \A k \in 0 .. 149 : force(k * Scale) > force((k + 1) * Scale)
  /\ \A e \in Pointers :
       LET ds == HomeDistances(e)
       IN  \A i, j \in DOMAIN ds :
             /\ ds[i] <= Radius => Strength(ds[i]) >= 0 /\ Strength(ds[i]) <= Strength(0)
             /\ ds[i] < ds[j] /\ ds[j] <= Radius => Strength(ds[i]) > Strength(ds[j])
             /\ ds[i] = ds[j] => Strength(ds[i]) = Strength(ds[j])

\* C7 witness: the pointer is active, two particles lie inside its radius at
\* different distances, and the last frame displaced a target
C7_Witness ==
  /\ variant = "network"
  /\ mouse.active
  /\ \E e \in Pointers :
       /\ mouse.x = e[1] * Scale /\ mouse.y = e[2] * Scale
       /\ \E i, j \in DOMAIN nodes :
            /\ 0 < HomeDistances(e)[i]
            /\ HomeDistances(e)[i] < HomeDistances(e)[j]
            /\ HomeDistances(e)[j] < Radius
            /\ targets # << >>
            /\ targets[i] # Homes[i]

\* no coordinate of the collection or of the last targets is NaN
AllFinite ==
  /\ \A i \in DOMAIN Homes :
       /\ Homes[i][1] # NaN /\ Homes[i][2] # NaN
       /\ Renders[i][1] # NaN /\ Renders[i][2] # NaN
  /\ \A i \in DOMAIN targets : targets[i][1] # NaN /\ targets[i][2] # NaN

\* C8: a frame gives a particle whose homePos coincides with the pointer
\* position its homePos as target (no 0/0), and no homePos, renderPos or
\* target coordinate is ever NaN.
C8_ZeroDistanceIsNoInfluence ==
  [][ /\ AllFinite'
      /\ frames' = frames + 1 /\ variant # "grid" =>
           \A i \in DOMAIN Homes' :
             Homes'[i] = <<mouse.x, mouse.y>> => targets'[i] = Homes'[i] ]_vars

\* C8 witness: the pointer rests exactly on a particle's home; the last frame
\* left that particle's target at its home while it pushed another particle
C8_Witness ==
  /\ variant = "repulsion"
  /\ targets # << >>
  /\ \E i \in DOMAIN particles :
       /\ particles[i].baseX = mouse.x /\ particles[i].baseY = mouse.y
       /\ targets[i] = Homes[i]
  /\ \E j \in DOMAIN particles : targets[j] # Homes[j]

\* C9: without a canvas or a 2D context the effect does nothing: no frame is
\* requested or executed, no listener registered, no particle seeded, no
\* teardown closure returned; this still holds after the unmount.
C9_NoSurfaceNoEffect ==
  canvas # "ok" =>
    /\ pending = { } /\ raf = 0 /\ handle = 0 /\ frames = 0
    /\ listeners = { }
    /\ nodes = << >> /\ particles = << >> /\ targets = << >>
    /\ W = 0 /\ H = 0
    /\ ~cleanup

\* C9 witness: mounted without a 2D context, then unmounted
C9_Witness == canvas = "noctx" /\ phase = "torn"

\* C10: a resize leaves a collection that is, as a whole, one fresh seeding
\* for the new dimensions (no member of the old one survives), and a frame
\* iterates exactly the collection it finds: same members, one target each.
C10_ResizeReplacesWhole ==
  [][ /\ ResizeStep =>
           \E p \in DOMAIN Patterns : Collection' = Seeded(W', H', p)
      /\ FrameStep /\ variant # "grid" =>
           /\ DOMAIN Collection' = DOMAIN Collection
           /\ DOMAIN targets' = DOMAIN Collection
           /\ Drifts' = Drifts ]_vars

\* C10 witness: after frames on another collection, a resize to 640 x 900 has
\* left the 51 particles of one seeding
C10_Witness ==
  /\ variant = "repulsion"
  /\ phase = "mounted"
  /\ frames >= 2
  /\ W = 640
  /\ Len(particles) = 51
  /\ targets = << >>
  /\ \E p \in DOMAIN Patterns : particles = initParticles(640, 900, p)

\* the distances between the render positions of the nodes of ns, for each
\* unordered pair {i, j} written as <<i, j>> with i < j
RenderDists(ns) ==
  [ q \in { r \in (1 .. Len(ns)) \X (1 .. Len(ns)) : r[1] < r[2] } |->
      dist(ns[q[1]].x, ns[q[1]].y, ns[q[2]].x, ns[q[2]].y) ]

Near(a, b) == Abs(a - b) <= Scale \div 2

\* C12, as claimed: in a frame of the grid variant the smoothed pointer moves
\* toward the raw position while the pointer is active and toward the
\* sentinel (-9999, -9999), and nowhere else, while it is inactive; after
\* sustained inactivity it has reached the sentinel.
C12_Original ==
  [][ FrameStep /\ variant = "grid" =>
        /\ mouseActive =>
             /\ Between(mouse.x, mouse'.x, rawMouse.x)
             /\ Between(mouse.y, mouse'.y, rawMouse.y)
        /\ ~mouseActive =>
             /\ Between(mouse.x, mouse'.x, Grid_mouseInit.x)
             /\ Between(mouse.y, mouse'.y, Grid_mouseInit.y)
             /\ frames' = HeldFrames =>
                  /\ Near(mouse'.x, Grid_mouseInit.x)
                  /\ Near(mouse'.y, Grid_mouseInit.y) ]_vars

\* the raw pointer state of the variant: is it active, and where
PointerActive ==
  CASE variant = "network"   -> mouse.active
    [] variant = "repulsion" -> mouse # Rep_mouseInit
    [] variant = "grid"      -> mouseActive

PointerAt ==
  IF variant = "grid" THEN <<rawMouse.x, rawMouse.y>> ELSE <<mouse.x, mouse.y>>

\* C13: the pointer starts inactive at (-9999, -9999); it is active exactly
\* when the last signal that took effect was a mouse-move or a touch-move
\* with a touch, and then it is at that signal's point (the first touch);
\* after a mouse-leave or touch-end it is inactive; a touch-move without
\* touches takes no effect.
C13_PointerLifecycle ==
  /\ signal.type = "none" =>
       ~PointerActive /\ PointerAt = <<-9999 * Scale, -9999 * Scale>>
  /\ signal.type = "move" =>
       PointerActive /\ PointerAt = <<signal.at[1] * Scale, signal.at[2] * Scale>>
  /\ signal.type = "off" => ~PointerActive
  /\ PointerActive <=> signal.type = "move"

\* C13 witness: the pointer moved to (20, 45), frames ran, and it left
C13_Witness ==
  /\ variant = "network"
  /\ signal = Left
  /\ ~mouse.active
  /\ mouse.x = 20 * Scale /\ mouse.y = 45 * Scale
  /\ \E i \in DOMAIN targets : targets[i] # Homes[i]

\* what a particle is created with besides its positions
Shapes ==
  CASE variant = "network" ->
         [ i \in DOMAIN nodes |->
             <<nodes[i].vx, nodes[i].vy, nodes[i].r, nodes[i].phase>> ]
    [] variant = "repulsion" ->
         [ i \in DOMAIN particles |->
             <<particles[i].vx, particles[i].vy, particles[i].radius,
               particles[i].color, particles[i].alpha>> ]
    [] variant = "grid" -> << >>

\* the pointer state the handlers write
RawPointer ==
  IF variant = "grid" THEN <<rawMouse, mouseActive>> ELSE <<mouse>>

\* a step in which a pointer handler took effect
PointerStep == signal' # signal \/ RawPointer' # RawPointer

\* C14: a frame changes no particle's drift velocity, radius, phase (colour,
\* alpha), nor the number of particles, the viewport dimensions or the raw
\* pointer state; a pointer signal changes no particle and no dimension; the
\* dimensions change only in resize(), called at mount and on a resize signal.
C14_FrameAndPointerEffects ==
  [][ /\ FrameStep =>
           /\ Shapes' = Shapes
           /\ W' = W /\ H' = H
           /\ RawPointer' = RawPointer /\ signal' = signal
      /\ PointerStep =>
           /\ nodes' = nodes /\ particles' = particles
           /\ W' = W /\ H' = H
      /\ <<W, H>>' # <<W, H>> =>
           \/ phase = "unmounted"
           \/ /\ Listening("resize")
              /\ frames' = frames
              /\ ~PointerStep ]_vars

\* C14 witness: after a resize to 640 x 900, pointer signals and frames, a
\* drifting node has moved off its seeded position
C14_Witness ==
  /\ variant = "network"
  /\ frames >= 3
  /\ W = 640
  /\ signal.type = "move"
  /\ \E i \in DOMAIN nodes :
       /\ nodes[i].vx # 0
       /\ nodes[i].x # nodes[i].ox
       /\ targets # << >>
       /\ targets[i] # Homes[i]

\* C15: wherever the effect has returned its teardown closure, invoking the
\* closure leaves no pending request and no subscription, whether or not the
\* request it cancels is still pending, and invoking it again on that result
\* gives the same result; once it has run, running it again changes nothing.
C15_TeardownIdempotent ==
  cleanup =>
    LET once  == teardown(pending, raf, listeners)
        twice == teardown(once.pending, raf, once.listeners)
        idle  == teardown(pending \ { raf }, raf, listeners)
    IN  /\ once = [ pending |-> { }, listeners |-> { } ]
        /\ twice = once
        /\ idle = once
        /\ phase = "torn" => once = [ pending |-> pending, listeners |-> listeners ]

\* C15 witness: the closure has run after several frames, and the state it
\* left is the one a further invocation returns
C15_Witness ==
  /\ phase = "torn"
  /\ cleanup
  /\ frames >= 2
  /\ raf \notin pending
  /\ teardown(pending, raf, listeners) = [ pending |-> pending, listeners |-> listeners ]

\* distance from the midpoint of segment q[2] of vertical line q[1] to sm,
\* and the same for a horizontal line
VMidDist(q, sm, h) ==
  Grid_dist(q[1] * 50 * Scale - sm.x, ((2 * q[2] + 1) * h * Scale) \div 80 - sm.y)
HMidDist(q, sm, w) ==
  Grid_dist(((2 * q[2] + 1) * w * Scale) \div 80 - sm.x, q[1] * 50 * Scale - sm.y)

\* C16: a frame of the grid variant strokes segment s (of 40) of a grid line
\* exactly when the distance d from the segment's midpoint to the smoothed
\* pointer is below 220 px, whatever the line test decided, and with opacity
\* (1 - d/220)^2 * 0.5.
C16_SegmentIffInGlow ==
  [][ frames' = frames + 1 /\ variant = "grid" =>
        /\ verticalSegments(mouse', W', H') =
             { [ line |-> q[1], seg |-> q[2],
                 alpha |-> (220 * Scale - VMidDist(q, mouse', H')) ^ 2 ] :
               q \in { r \in (0 .. cols(W')) \X (0 .. 39) :
                         VMidDist(r, mouse', H') < 220 * Scale } }
        /\ horizontalSegments(mouse', W', H') =
             { [ line |-> q[1], seg |-> q[2],
                 alpha |-> (220 * Scale - HMidDist(q, mouse', W')) ^ 2 ] :
               q \in { r \in (0 .. rows(H')) \X (0 .. 39) :
                         HMidDist(r, mouse', W') < 220 * Scale } }
        /\ \A g \in verticalSegments(mouse', W', H')
                      \cup horizontalSegments(mouse', W', H') :
             g.alpha > 0 /\ g.alpha <= (220 * Scale) ^ 2 ]_vars

\* C16 witness: the smoothed pointer is approaching the viewport: one line
\* has a glowing and a dark segment, another line fails the line test
C16_Witness ==
  /\ variant = "grid"
  /\ mouseActive
  /\ frames >= 2
  /\ \E g \in verticalSegments(mouse, W, H) :
       \E s \in 0 .. 39 :
         VMidDist(<<g.line, s>>, mouse, H) >= 220 * Scale
  /\ \E c \in 0 .. cols(W) : ~nearLine(c * CELL * Scale, mouse.x)

\* near-convergence: within 3 px of the target on each axis
Eps == 3 * Scale

\* render position r is within Eps of target t
Settled(r, t) == Abs(r[1] - t[1]) <= Eps /\ Abs(r[2] - t[2]) <= Eps

\* the pointer position of the network variant
MouseAt == <<mouse.x, mouse.y>>

\* node i's origin lies inside the pointer's radius, off the pointer itself
InRadius(h) ==
  LET d == dist(h[1], h[2], mouse.x, mouse.y)
  IN  d > 0 /\ d < 280 * Scale

\* C17: while the pointer of the network variant is active and held at one
\* point, every node whose origin is inside the radius comes strictly closer
\* to the pointer in each frame until it is within Eps of its target; from
\* then on it stays within Eps of its target; and after the pointer has been
\* held for the rest of a run every such node has got there.
C17_HeldPointerAttracts ==
  [][ FrameStep /\ variant = "network" /\ mouse.active =>
        \A i \in DOMAIN nodes :
          InRadius(Homes'[i]) =>
            /\ \/ Settled(Renders'[i], targets'[i])
               \/ DistSq(Renders'[i], MouseAt) < DistSq(Renders[i], MouseAt)
            /\ ( /\ targets # << >>
                 /\ targets[i] = target(Homes[i][1], Homes[i][2], mouse)
                 /\ Settled(Renders[i], targets[i]) )
                 => Settled(Renders'[i], targets'[i])
            /\ frames' = HeldFrames => Settled(Renders'[i], targets'[i]) ]_vars

\* C17 witness: the pointer is still held at the end of a run; a node whose
\* target lies more than Eps from its origin, where it started, has settled
\* within Eps of that target
C17_Witness ==
  /\ variant = "network"
  /\ mouse.active
  /\ frames >= 50
  /\ \E i \in DOMAIN nodes :
       /\ InRadius(Homes[i])
       /\ ~Settled(Homes[i], targets[i])
       /\ Settled(Renders[i], targets[i])
       /\ nodes[i].vx # 0

\* the places of pass a in the sequence tr
Places(a, tr) == { k \in DOMAIN tr : tr[k] = a }

\* pass a occurs once in tr, and before every occurrence of pass b
OnceBefore(a, b, tr) ==
  /\ Cardinality(Places(a, tr)) = 1
  /\ \A k \in Places(a, tr), l \in Places(b, tr) : k < l

\* C18: a frame of the network variant runs as one step, in which it clears
\* the canvas first, then integrates every node, then draws the edges, then
\* the nodes, then the pointer hub (when the pointer is active), and requests
\* the next frame last; a frame of the grid variant draws its segments before
\* its intersection dots; no other step runs any pass.
C18_FramePhaseOrder ==
  [][ /\ frames' = frames + 1 /\ variant = "network" =>
           /\ trace'[1] = "clearRect"
           /\ OnceBefore("clearRect", "update", trace')
           /\ OnceBefore("update", "edges", trace')
           /\ OnceBefore("edges", "nodes", trace')
           /\ OnceBefore("nodes", "hub", trace')
           /\ OnceBefore("nodes", "requestAnimationFrame", trace')
           /\ mouse.active <=> Cardinality(Places("hub", trace')) = 1
           /\ \A k \in Places("hub", trace') : k = Len(trace') - 1
           /\ Places("requestAnimationFrame", trace') = { Len(trace') }
           /\ pending' = { raf' }
      /\ frames' = frames + 1 /\ variant = "grid" =>
           /\ trace'[1] = "clearRect"
           /\ OnceBefore("vertical", "dots", trace')
           /\ OnceBefore("horizontal", "dots", trace')
           /\ OnceBefore("dots", "requestAnimationFrame", trace')
           /\ Places("requestAnimationFrame", trace') = { Len(trace') }
      /\ frames' = frames => trace' = trace ]_vars

\* C18 witness: a frame of the network variant has run with the pointer
\* active and drawn the hub; the pointer has left since
C18_Witness ==
  /\ variant = "network"
  /\ frames >= 2
  /\ Places("hub", trace) # { }
  /\ signal = Left

\* C19: from a successful mount to the teardown exactly one frame request is
\* pending between steps, the one whose handle the effect holds; a resize or
\* pointer handler requests and cancels nothing; a frame consumes the pending
\* request and issues exactly one new one.
C19_OnePendingRequest ==
  [][ /\ phase' = "mounted" /\ cleanup' =>
           Cardinality(pending') = 1 /\ pending' = { raf' }
      /\ frames' = frames /\ phase' = phase =>
           pending' = pending /\ raf' = raf /\ handle' = handle
      /\ FrameStep =>
           /\ pending \subseteq { raf }
           /\ pending' = { handle' }
           /\ handle' = handle + 1
           /\ handle' \notin pending ]_vars

\* C19 witness: after a resize, a pointer move and three frames, the fourth
\* request is the one pending
C19_Witness ==
  /\ phase = "mounted"
  /\ cleanup
  /\ frames >= 3
  /\ W = 640
  /\ signal.type = "move"
  /\ targets = << >>
  /\ pending = { raf }
  /\ raf = frames

\* the fraction (1 - d/280) * 0.144 of the claim, in 1/100000
Fraction(d) == ((280 * Scale - d) * 144 * 100) \div (280 * Scale)

\* C20: in a frame of the network variant with the pointer active, the target
\* of a node whose origin is at distance 0 < d < 280 px from the pointer lies
\* on the segment from the origin to the pointer, at the fraction
\* (1 - d/280) * 0.144 of the way; the fraction is below 1, the target is not
\* the pointer and is no farther from the pointer than the origin is.
C20_TargetShortOfPointer ==
  [][ FrameStep /\ variant = "network" /\ mouse.active =>
        \A i \in DOMAIN nodes :
          InRadius(Homes'[i]) =>
            LET h == Homes'[i]
                t == targets'[i]
                f == Fraction(dist(h[1], h[2], mouse.x, mouse.y))
            IN  /\ f >= 0 /\ f <= 14400 /\ f < 100000
                /\ \A k \in 1 .. 2 :
                     /\ Between(h[k], t[k], MouseAt[k])
                     /\ Abs((t[k] - h[k]) * 100000 - (MouseAt[k] - h[k]) * f)
                          < 100000
                /\ t # MouseAt
                /\ DistSq(t, MouseAt) <= DistSq(h, MouseAt) ]_vars

\* C20 witness: with the pointer active on a 640 x 900 viewport, the last
\* frame pulled the target of one node part of the way to the pointer and
\* left the target of a node outside the radius at its origin
C20_Witness ==
  /\ variant = "network"
  /\ mouse.active
  /\ W = 640
  /\ targets # << >>
  /\ \E i \in DOMAIN nodes :
       /\ InRadius(Homes[i])
       /\ targets[i] # Homes[i]
       /\ DistSq(targets[i], MouseAt) < DistSq(Homes[i], MouseAt)
  /\ \E j \in DOMAIN nodes : ~InRadius(Homes[j]) /\ targets[j] = Homes[j]

\* a frame that leaves the smoothed pointer at sm paints no segment and no
\* intersection dot
Dark(sm, w, h) ==
  /\ verticalSegments(sm, w, h) = { }
  /\ horizontalSegments(sm, w, h) = { }
  /\ dots(sm, w, h) = { }

\* C21, as claimed: in the grid variant, once the pointer has left from a
\* point inside the viewport and stayed inactive for the rest of a run, the
\* frames paint no segment and no intersection dot.
C21_Original ==
  [][ /\ FrameStep /\ variant = "grid"
      /\ signal = Left /\ ~mouseActive
      /\ frames' = HeldFrames
      => Dark(mouse', W', H') ]_vars

====
